---- MODULE Spec2Model ----
(***************************************************************************)
(* Model of src/app/app.py: the grocery management script.  The script     *)
(* sets two environment variables, loads a receipt, creates four agents,   *)
(* defines four tasks and hands them to a Crew, whose kickoff() runs the   *)
(* tasks one after the other.  What an agent answers is decided by an      *)
(* external reasoning service; the script places no check on it, so a      *)
(* stage's answer is a nondeterministic choice over the answers such a     *)
(* service can give (well-formed or not, faithful to its input or not).    *)
(***************************************************************************)
EXTENDS Integers, Sequences, FiniteSets, TLC

(* ------------------------------ bounds -------------------------------- *)
\* largest count an answer may carry
MaxCount == 1
\* largest quantity the user may report as consumed
MaxConsumed == 2

(* --------------------------- input domains ---------------------------- *)
\* counts an answer may carry: nothing keeps the service from going below 0
Counts == (0 - 1)..MaxCount
Names == {"milk", "eggs"}
Units == {"pcs", "kg"}
NoDate == "none"
Dates == {NoDate, "2024-11-23"}
Receipts == {"| milk | 1 | pcs |", "| eggs | 1 | kg |"}

(* ------------------------- the script's constants --------------------- *)
today == "2024-11-16"
TrackerFile == "grocery_tracker.json"
RecipeFile == "recipe_recommendation.json"
OutputFiles == {TrackerFile, RecipeFile}
NoFile == "none"

\* the agents, in the order create_agents returns them
Agents ==
  << "receipt_interpreter_agent", "expiration_date_search_agent",
     "grocery_tracker_agent", "recipe_recommendation_agent" >>

\* the task list define_tasks returns
Tasks ==
  << "read_receipt_task", "expiration_date_search_task",
     "grocery_tracking_task", "recipe_recommendation_task" >>

TaskSet == { Tasks[i] : i \in 1..Len(Tasks) }

\* the agent= argument of each Task
AgentOf(t) ==
  CASE t = "read_receipt_task" -> "receipt_interpreter_agent"
    [] t = "expiration_date_search_task" -> "expiration_date_search_agent"
    [] t = "grocery_tracking_task" -> "grocery_tracker_agent"
    [] OTHER -> "recipe_recommendation_agent"

\* mutant of Context: every earlier task's output is handed on
ContextAllPrior(t) ==
  CASE t = "read_receipt_task" -> << >>
    [] t = "expiration_date_search_task" -> << "read_receipt_task" >>
    [] t = "grocery_tracking_task" ->
         << "read_receipt_task", "expiration_date_search_task" >>
    [] OTHER ->
         << "read_receipt_task", "expiration_date_search_task",
            "grocery_tracking_task" >>

\* the context= argument of each Task
Context(t) ==
  CASE t = "read_receipt_task" -> << >>
    [] t = "expiration_date_search_task" -> << "read_receipt_task" >>
    [] t = "grocery_tracking_task" -> << "expiration_date_search_task" >>
    [] OTHER -> << "grocery_tracking_task" >>

\* mutant of OutputFile: the estimator is given the tracker's output file too
OutputFileShared(t) ==
  CASE t = "expiration_date_search_task" -> TrackerFile
    [] t = "grocery_tracking_task" -> TrackerFile
    [] t = "recipe_recommendation_task" -> RecipeFile
    [] OTHER -> NoFile

\* the output_file= argument of each Task
OutputFile(t) ==
  CASE t = "grocery_tracking_task" -> TrackerFile
    [] t = "recipe_recommendation_task" -> RecipeFile
    [] OTHER -> NoFile

\* the human_input= argument of each Task
TaskHumanInput(t) == t = "grocery_tracking_task"

\* the human_input= argument of each Agent
AgentHumanInput(a) == a = "recipe_recommendation_agent"

\* the field names each task's expected_output declares at top level
ExpectedKeys(t) ==
  CASE t = "read_receipt_task" -> {"items", "date_of_purchase"}
    [] t = "expiration_date_search_task" -> {"items"}
    [] t = "grocery_tracking_task" -> {"items"}
    [] OTHER -> {"recipes", "restock_recommendations"}

(* ------------------------------ answers ------------------------------- *)
Items ==
  [item_name : Names, count : Counts, unit : Units, expiration_date : Dates]

\* an answer lists at most one item here
ItemLists(I) == { << >> } \cup { << i >> : i \in I }

NoOutput == [format |-> "none", keys |-> {}, items |-> << >>]
TextOutput == [format |-> "text", keys |-> {}, items |-> << >>]

\* what the external service may answer for task t: free text, or a JSON
\* document with some top-level keys and some items
Answers(t) ==
  {TextOutput} \cup
  ( IF t = "recipe_recommendation_task"
      THEN { [format |-> "json", keys |-> k, items |-> << >>] :
               k \in SUBSET ExpectedKeys(t) }
      ELSE IF t = "read_receipt_task"
        THEN { [format |-> "json", keys |-> ExpectedKeys(t), items |-> l] :
                 l \in ItemLists({ i \in Items : i.expiration_date = NoDate }) }
        ELSE { [format |-> "json", keys |-> ExpectedKeys(t), items |-> l] :
                 l \in ItemLists(Items) } )

\* markdown(): the text rendered as HTML
markdown(text) == << "html", text >>

NoMarkdown == << "none", "" >>
LoadError == << "error", "" >>

\* mutant of load_receipt: a missing file reads as an empty receipt
load_receipt_lenient(exists, text) ==
  IF exists THEN markdown(text) ELSE markdown("")

\* load_receipt: open() raises when the file is absent
load_receipt(exists, text) ==
  IF exists THEN markdown(text) ELSE LoadError

(* ------------------------------- state -------------------------------- *)
VARIABLES
  pc,               \* the statement of __main__ to execute next
  fileExists,       \* whether the receipt file is present
  receiptText,      \* the content of the receipt file
  receipt_markdown, \* the value load_receipt returned
  agents,           \* the agents created so far
  tasks,            \* the task list handed to the Crew
  idx,              \* kickoff's position in the task list
  status,           \* per task: pending, running, returned, failed
  started,          \* per task: how many times the Crew invoked it
  context,          \* per task: the context it was invoked with
  output,           \* per task: the answer it returned
  asked,            \* per task: whether the human was prompted
  consumed,         \* the quantity the user reported as consumed
  files,            \* per output file: its content
  writes,           \* per output file: how many times it was written
  writers,          \* per output file: the tasks that wrote it
  printed           \* whether the completion message was printed

vars ==
  << pc, fileExists, receiptText, receipt_markdown, agents, tasks, idx,
     status, started, context, output, asked, consumed, files, writes,
     writers, printed >>

crewVars ==
  << idx, status, started, context, output, asked, consumed, files, writes,
     writers >>

Init ==
  /\ pc = "setup_environment"
  /\ fileExists \in BOOLEAN
  /\ receiptText \in Receipts
  /\ receipt_markdown = NoMarkdown
  /\ agents = << >>
  /\ tasks = << >>
  /\ idx = 1
  /\ status = [t \in TaskSet |-> "pending"]
  /\ started = [t \in TaskSet |-> 0]
  /\ context = [t \in TaskSet |-> << >>]
  /\ output = [t \in TaskSet |-> NoOutput]
  /\ asked = [t \in TaskSet |-> FALSE]
  /\ consumed = 0
  /\ files = [f \in OutputFiles |-> NoOutput]
  /\ writes = [f \in OutputFiles |-> 0]
  /\ writers = [f \in OutputFiles |-> {}]
  /\ printed = FALSE

(* ------------------------------ __main__ ------------------------------ *)
\* Step 1: setup_environment()
SetupEnvironment ==
  /\ pc = "setup_environment"
  /\ pc' = "load_receipt"
  /\ UNCHANGED << fileExists, receiptText, receipt_markdown, agents, tasks,
                  printed >>
  /\ UNCHANGED crewVars

\* Step 2: receipt_markdown = load_receipt(receipt_file_path)
LoadReceipt ==
  /\ pc = "load_receipt"
  /\ LET r == load_receipt(fileExists, receiptText)
     IN IF r = LoadError
          THEN /\ pc' = "failed"
               /\ UNCHANGED receipt_markdown
          ELSE /\ pc' = "create_agents"
               /\ receipt_markdown' = r
  /\ UNCHANGED << fileExists, receiptText, agents, tasks, printed >>
  /\ UNCHANGED crewVars

\* Step 3: agents = create_agents(); a constructor of the framework may raise
CreateAgents ==
  /\ pc = "create_agents"
  /\ \/ /\ agents' = Agents
        /\ pc' = "define_tasks"
     \/ /\ pc' = "failed"
        /\ UNCHANGED agents
  /\ UNCHANGED << fileExists, receiptText, receipt_markdown, tasks, printed >>
  /\ UNCHANGED crewVars

\* Step 4: tasks = define_tasks(...); a constructor of the framework may raise
DefineTasks ==
  /\ pc = "define_tasks"
  /\ \/ /\ tasks' = Tasks
        /\ pc' = "run_crew"
     \/ /\ pc' = "failed"
        /\ UNCHANGED tasks
  /\ UNCHANGED << fileExists, receiptText, receipt_markdown, agents, printed >>
  /\ UNCHANGED crewVars

\* Step 5: run_crew builds the Crew and calls kickoff()
RunCrew ==
  /\ pc = "run_crew"
  /\ pc' = "kickoff"
  /\ UNCHANGED << fileExists, receiptText, receipt_markdown, agents, tasks,
                  printed >>
  /\ UNCHANGED crewVars

mainVars == << fileExists, receiptText, receipt_markdown, agents, tasks >>

\* kickoff hands the next task of the list to its agent, with the outputs of
\* the tasks its context names
StageStart ==
  /\ pc = "kickoff"
  /\ idx <= Len(tasks)
  /\ LET t == tasks[idx]
     IN /\ status[t] = "pending"
        /\ status' = [status EXCEPT ![t] = "running"]
        /\ started' = [started EXCEPT ![t] = @ + 1]
        /\ context' = [context EXCEPT ![t] =
                         [i \in 1..Len(Context(t)) |-> output[Context(t)[i]]]]
  /\ UNCHANGED << pc, idx, output, asked, consumed, files, writes, writers,
                  printed >>
  /\ UNCHANGED mainVars

\* mutant of HumanPrompt: the prompt is not recorded as done
HumanPromptAgain ==
  /\ pc = "kickoff"
  /\ idx <= Len(tasks)
  /\ LET t == tasks[idx]
     IN /\ status[t] = "running"
        /\ TaskHumanInput(t) \/ AgentHumanInput(AgentOf(t))
        /\ \E q \in 0..MaxConsumed : consumed' = q
        /\ consumed' # consumed
  /\ UNCHANGED << pc, idx, status, started, context, output, asked, files,
                  writes, writers, printed >>
  /\ UNCHANGED mainVars

\* a stage configured with human_input=True prompts the user once; the
\* tracker's prompt is where the user reports what was consumed
HumanPrompt ==
  /\ pc = "kickoff"
  /\ idx <= Len(tasks)
  /\ LET t == tasks[idx]
     IN /\ status[t] = "running"
        /\ TaskHumanInput(t) \/ AgentHumanInput(AgentOf(t))
        /\ ~asked[t]
        /\ asked' = [asked EXCEPT ![t] = TRUE]
        /\ IF TaskHumanInput(t)
             THEN \E q \in 0..MaxConsumed : consumed' = q
             ELSE UNCHANGED consumed
  /\ UNCHANGED << pc, idx, status, started, context, output, files, writes,
                  writers, printed >>
  /\ UNCHANGED mainVars

\* mutant of StageReturn: a task with human input is run again after feedback
StageReturnRerun ==
  /\ pc = "kickoff"
  /\ idx <= Len(tasks)
  /\ LET t == tasks[idx]
         f == OutputFile(t)
     IN /\ status[t] = "running"
        /\ TaskHumanInput(t) => asked[t]
        /\ \E a \in Answers(t) :
             /\ output' = [output EXCEPT ![t] = a]
             /\ IF f # NoFile
                  THEN /\ files' = [files EXCEPT ![f] = a]
                       /\ writes' = [writes EXCEPT ![f] = @ + 1]
                       /\ writers' = [writers EXCEPT ![f] = @ \cup {t}]
                  ELSE UNCHANGED << files, writes, writers >>
        /\ IF TaskHumanInput(t) /\ started[t] = 1
             THEN /\ status' = [status EXCEPT ![t] = "pending"]
                  /\ UNCHANGED idx
             ELSE /\ status' = [status EXCEPT ![t] = "returned"]
                  /\ idx' = idx + 1
  /\ UNCHANGED << pc, started, context, asked, consumed, printed >>
  /\ UNCHANGED mainVars

\* the running stage returns its answer; the Crew stores it as the task's
\* output, writes it to the task's output_file and moves to the next task
StageReturn ==
  /\ pc = "kickoff"
  /\ idx <= Len(tasks)
  /\ LET t == tasks[idx]
         f == OutputFile(t)
     IN /\ status[t] = "running"
        /\ TaskHumanInput(t) => asked[t]
        /\ \E a \in Answers(t) :
             /\ output' = [output EXCEPT ![t] = a]
             /\ IF f # NoFile
                  THEN /\ files' = [files EXCEPT ![f] = a]
                       /\ writes' = [writes EXCEPT ![f] = @ + 1]
                       /\ writers' = [writers EXCEPT ![f] = @ \cup {t}]
                  ELSE UNCHANGED << files, writes, writers >>
        /\ status' = [status EXCEPT ![t] = "returned"]
        /\ idx' = idx + 1
  /\ UNCHANGED << pc, started, context, asked, consumed, printed >>
  /\ UNCHANGED mainVars

\* mutant of StageFail: the failure is swallowed and the Crew moves on
StageFailSwallowed ==
  /\ pc = "kickoff"
  /\ idx <= Len(tasks)
  /\ LET t == tasks[idx]
     IN /\ status[t] = "running"
        /\ status' = [status EXCEPT ![t] = "failed"]
  /\ idx' = idx + 1
  /\ UNCHANGED << pc, started, context, output, asked, consumed, files,
                  writes, writers, printed >>
  /\ UNCHANGED mainVars

\* the running stage raises (model call, web tool, file write): nothing in
\* run_crew or __main__ catches it
StageFail ==
  /\ pc = "kickoff"
  /\ idx <= Len(tasks)
  /\ LET t == tasks[idx]
     IN /\ status[t] = "running"
        /\ status' = [status EXCEPT ![t] = "failed"]
  /\ pc' = "failed"
  /\ UNCHANGED << idx, started, context, output, asked, consumed, files,
                  writes, writers, printed >>
  /\ UNCHANGED mainVars

\* kickoff returns after the last task; __main__ prints the completion message
Finish ==
  /\ pc = "kickoff"
  /\ idx = Len(tasks) + 1
  /\ printed' = TRUE
  /\ pc' = "done"
  /\ UNCHANGED crewVars
  /\ UNCHANGED mainVars

Next ==
  \/ SetupEnvironment
  \/ LoadReceipt
  \/ CreateAgents
  \/ DefineTasks
  \/ RunCrew
  \/ StageStart
  \/ HumanPrompt
  \/ StageReturn
  \/ StageFail
  \/ Finish

Spec == Init /\ [][Next]_vars

\* every call the script makes eventually returns or raises
FairSpec == Spec /\ WF_vars(Next)

(* ------------------------------ helpers ------------------------------- *)
Running == { t \in TaskSet : status[t] = "running" }

NamesOf(doc) == { doc.items[i].item_name : i \in 1..Len(doc.items) }

\* doc is a JSON document with the field names task t declares
Conforms(doc, t) ==
  /\ doc.format = "json"
  /\ doc.keys = ExpectedKeys(t)
  /\ t = "grocery_tracking_task" =>
       \A i \in 1..Len(doc.items) : doc.items[i].expiration_date # NoDate

(* ------------------------------- claims ------------------------------- *)
\* C1: the stages run in the order of the task list, a stage is invoked only
\* after its predecessor has returned, and the context a stage is invoked
\* with is exactly its immediate predecessor's output (none for the first).
PipelineOrderAndContext ==
  /\ Cardinality(Running) <= 1
  /\ status["read_receipt_task"] # "pending" =>
       context["read_receipt_task"] = << >>
  /\ \A i \in 2..Len(Tasks) :
       status[Tasks[i]] # "pending" =>
         /\ status[Tasks[i - 1]] = "returned"
         /\ context[Tasks[i]] = << output[Tasks[i - 1]] >>

PipelineOrderAndContextWitness ==
  /\ status["recipe_recommendation_task"] = "returned"
  /\ Len(output["read_receipt_task"].items) = 1
  /\ Len(output["grocery_tracking_task"].items) = 1

\* C2: when the receipt file is absent, the run never gets past load_receipt:
\* no agent is created, no task defined, no stage invoked, no output file
\* written and the completion message is not printed.
MissingReceiptStopsRun ==
  ~fileExists =>
    /\ pc \in {"setup_environment", "load_receipt", "failed"}
    /\ agents = << >>
    /\ tasks = << >>
    /\ \A t \in TaskSet : started[t] = 0 /\ status[t] = "pending"
    /\ \A f \in OutputFiles : writes[f] = 0
    /\ ~printed

MissingReceiptStopsRunWitness ==
  ~fileExists /\ pc = "failed"

OutputFilesWrittenOnce ==
  /\ \A f \in OutputFiles : writes[f] <= 1
  /\ writers[TrackerFile] \subseteq {"grocery_tracking_task"}
  /\ writers[RecipeFile] \subseteq {"recipe_recommendation_task"}
  /\ Cardinality(Running) <= 1

OutputFilesWrittenOnceWitness ==
  /\ writes[TrackerFile] = 1
  /\ writes[RecipeFile] = 1
  /\ status["expiration_date_search_task"] = "returned"

\* C5: after a successful run both output files hold JSON documents with the
\* declared field names.
SuccessfulRunWritesValidJson ==
  (pc = "done" /\ printed) =>
    /\ Conforms(files[TrackerFile], "grocery_tracking_task")
    /\ Conforms(files[RecipeFile], "recipe_recommendation_task")

ItemNamesPreserved ==
  \A t \in {"expiration_date_search_task", "grocery_tracking_task"} :
    status[t] = "returned" =>
      NamesOf(output[t]) = NamesOf(output["read_receipt_task"])

\* C8: no item in any stage output or in the persisted inventory has a
\* negative count.
CountsNonNegative ==
  /\ \A t \in TaskSet :
       \A i \in 1..Len(output[t].items) : output[t].items[i].count >= 0
  /\ \A i \in 1..Len(files[TrackerFile].items) :
       files[TrackerFile].items[i].count >= 0

\* C9: the estimator returns its input's items with name, count and unit
\* unchanged and an expiration date added; the tracker returns the
\* estimator's items with name, unit and expiration date unchanged.
StagesOnlyAnnotate ==
  LET a == output["read_receipt_task"].items
      b == output["expiration_date_search_task"].items
      c == output["grocery_tracking_task"].items
  IN /\ status["expiration_date_search_task"] = "returned" =>
          /\ Len(b) = Len(a)
          /\ \A i \in 1..Len(b) :
               /\ b[i].item_name = a[i].item_name
               /\ b[i].count = a[i].count
               /\ b[i].unit = a[i].unit
               /\ b[i].expiration_date # NoDate
     /\ status["grocery_tracking_task"] = "returned" =>
          /\ Len(c) = Len(b)
          /\ \A i \in 1..Len(c) :
               /\ c[i].item_name = b[i].item_name
               /\ c[i].unit = b[i].unit
               /\ c[i].expiration_date = b[i].expiration_date

====
